---- MODULE Spec2Model ----
(***************************************************************************)
(* A model of the maxo lexer (lexer/lexer.go) and of the reference parser  *)
(* that drains it (parser.Parse).  The input is a Go string, that is a     *)
(* sequence of bytes; the lexer decodes it rune by rune with               *)
(* utf8.DecodeRuneInString.  The scan goroutine (producer) and the         *)
(* consumer run concurrently and meet on the Items channel (capacity 1).   *)
(***************************************************************************)
EXTENDS Integers, Sequences, FiniteSets, TLC

(* ------------------------------ bounds --------------------------------- *)

\* longest input, in code points
MaxLen == 3

\* receives a nextItem consumer still makes once the channel is closed and empty
MaxExtraReads == 2

(* ---------------------------- item kinds ------------------------------- *)

WhiteSpace == 0

Text == 3

\* a bug: a kind added to the const block moves EOF onto ItemError
EOFShifted == 10 + 1

EOF == 10

ItemError == 11

\* const eof = rune(0)
eof == 0

\* utf8.RuneError, U+FFFD
RuneError == 65533

\* make(chan Item, 1)
ItemsCap == 1

\* the zero value of Item, what a receive from a closed, empty channel yields
ZeroItem == [Position |-> 0, Kind |-> 0, Value |-> <<>>]

\* the state functions; nilFn is the nil stateFn
lexTextFn == "lexText"

lexWhitespaceFn == "lexWhitespace"

nilFn == "nil"

(* ------------------------- the test alphabet --------------------------- *)

\* code points the inputs are built from: NUL, ' ', 'a', U+00A0 (no-break
\* space, two bytes, whitespace), U+00E9 (e acute, two bytes, a letter)
Alphabet == {0, 32, 97, 160, 233}

(* ------------------------------ UTF-8 ---------------------------------- *)

IsCont(b) == b \in 128..191

\* utf8.DecodeRuneInString: the first rune of the byte string s and its width
DecodeRuneInString(s) ==
  IF Len(s) = 0 THEN [r |-> RuneError, w |-> 0]
  ELSE LET b0 == s[1] IN
    IF b0 < 128 THEN [r |-> b0, w |-> 1]
    ELSE IF b0 \in 194..223 THEN
      IF Len(s) >= 2 /\ IsCont(s[2])
      THEN [r |-> (b0 - 192) * 64 + (s[2] - 128), w |-> 2]
      ELSE [r |-> RuneError, w |-> 1]
    ELSE IF b0 \in 224..239 THEN
      IF /\ Len(s) >= 3
         /\ s[2] \in (IF b0 = 224 THEN 160..191 ELSE IF b0 = 237 THEN 128..159 ELSE 128..191)
         /\ IsCont(s[3])
      THEN [r |-> (b0 - 224) * 4096 + (s[2] - 128) * 64 + (s[3] - 128), w |-> 3]
      ELSE [r |-> RuneError, w |-> 1]
    ELSE IF b0 \in 240..244 THEN
      IF /\ Len(s) >= 4
         /\ s[2] \in (IF b0 = 240 THEN 144..191 ELSE IF b0 = 244 THEN 128..143 ELSE 128..191)
         /\ IsCont(s[3])
         /\ IsCont(s[4])
      THEN [r |-> (b0 - 240) * 262144 + (s[2] - 128) * 4096
                   + (s[3] - 128) * 64 + (s[4] - 128), w |-> 4]
      ELSE [r |-> RuneError, w |-> 1]
    ELSE [r |-> RuneError, w |-> 1]

\* the UTF-8 encoding of one rune, as string(rune) and string([]rune) produce it
EncodeRune(c) ==
  IF c < 0 \/ c > 1114111 \/ c \in 55296..57343 THEN <<239, 191, 189>>
  ELSE IF c < 128 THEN <<c>>
  ELSE IF c < 2048 THEN <<192 + (c \div 64), 128 + (c % 64)>>
  ELSE IF c < 65536 THEN <<224 + (c \div 4096), 128 + ((c \div 64) % 64), 128 + (c % 64)>>
  ELSE <<240 + (c \div 262144), 128 + ((c \div 4096) % 64),
         128 + ((c \div 64) % 64), 128 + (c % 64)>>

\* string(r) for r []rune
RECURSIVE EncodeString(_)
EncodeString(rs) ==
  IF rs = <<>> THEN <<>> ELSE EncodeRune(Head(rs)) \o EncodeString(Tail(rs))

\* []rune(s): every rune of the byte string s, an invalid byte giving RuneError
RECURSIVE Runes(_)
Runes(s) ==
  IF s = <<>> THEN <<>>
  ELSE LET d == DecodeRuneInString(s)
       IN <<d.r>> \o Runes(SubSeq(s, d.w + 1, Len(s)))

\* unicode.IsSpace
IsSpace(c) ==
  \/ c \in 9..13
  \/ c \in {32, 133, 160, 5760, 8232, 8233, 8239, 8287, 12288}
  \/ c \in 8192..8202

(* ------------------------------ state ---------------------------------- *)

VARIABLES
  input,      \* Lexer.input, a byte string
  start,      \* Lexer.start
  Position,   \* Lexer.Position
  width,      \* Lexer.width
  r,          \* the rune the last next() returned to the running state function
  k,          \* the ItemKind parameter of the running lexEOF
  pc,         \* where the scan goroutine is
  Items,      \* the buffer of the Items channel
  closed,     \* whether close(l.Items) has run
  sent,       \* history: every item sent on Items, in order
  mode,       \* which consumer drains the channel: "parse" or "nextItem"
  cpc,        \* where the consumer is
  sb,         \* parser.parse: the strings.Builder
  result,     \* parser.result
  errItem,    \* parser.errItem: <<>> is nil, <<item>> a pointer to item
  ret,        \* what Parse returned: <<>> before it returns
  received,   \* history: every item the consumer took out of the channel
  returned    \* history: every value nextItem returned

lexvars == <<input, start, Position, width, r, k, pc>>

chanvars == <<Items, closed, sent>>

consvars == <<mode, cpc, sb, result, errItem, ret, received, returned>>

vars == <<input, start, Position, width, r, k, pc, Items, closed, sent,
          mode, cpc, sb, result, errItem, ret, received, returned>>

(* ------------------------------ inputs --------------------------------- *)

SeqsUpTo(S, n) == UNION {[1..m -> S] : m \in 0..n}

\* the Go strings a scan is started on: the UTF-8 encodings of short texts
Inputs == {EncodeString(cs) : cs \in SeqsUpTo(Alphabet, MaxLen)}

(* ------------------------ cursor primitives ---------------------------- *)

\* Lexer.next: the rune returned, the width recorded and the new Position
next(inp, pos) ==
  IF pos >= Len(inp)
  THEN [r |-> eof, width |-> 0, Position |-> pos]
  ELSE LET d == DecodeRuneInString(SubSeq(inp, pos + 1, Len(inp)))
       IN [r |-> d.r, width |-> d.w, Position |-> pos + d.w]

\* a bug: a step back of two bytes
backupTwo(pos) == pos - 2

\* Lexer.backup: the new Position
backup(pos) == pos - 1

\* a bug: emit without the reset of start
ignoreStale(pos) == start

\* Lexer.ignore: the new start
ignore(pos) == pos

\* input[start:Position]
accumulation(inp, s, p) == SubSeq(inp, s + 1, p)

\* a bug: the item records the cursor, not the start of the segment
NewItemAtCursor(kind) ==
  [Position |-> Position, Kind |-> kind, Value |-> accumulation(input, start, Position)]

\* the Item that emit builds
NewItem(kind) ==
  [Position |-> start, Kind |-> kind, Value |-> accumulation(input, start, Position)]

\* a bug: a send that gives up when the buffer is full (select with default)
emitOrDrop(kind) ==
  /\ ~closed
  /\ Items' = IF Len(Items) < ItemsCap THEN Append(Items, NewItem(kind)) ELSE Items
  /\ sent' = Append(sent, NewItem(kind))
  /\ start' = ignore(Position)
  /\ UNCHANGED closed

\* Lexer.emit: the send blocks while the buffer is full
emit(kind) ==
  /\ Len(Items) < ItemsCap
  /\ ~closed
  /\ Items' = Append(Items, NewItem(kind))
  /\ sent' = Append(sent, NewItem(kind))
  /\ start' = ignore(Position)
  /\ UNCHANGED closed

\* a bug: scan runs one state function and closes
scanLoopOnce(fn) == IF fn = lexTextFn THEN fn ELSE "close"

\* Lexer.scan: the loop runs the state function returned, or ends on nil
scanLoop(fn) == IF fn = nilFn THEN "close" ELSE fn

\* a bug: lexEOF hands over to lexText
lexEOFReturnText == lexTextFn

\* what lexEOF returns
lexEOFReturn == nilFn

\* a bug: lexText hands over to itself
lexTextReturnSelf == lexTextFn

\* what lexText returns once it met whitespace
lexTextReturn == lexWhitespaceFn

\* what lexWhitespace returns once it met a non-whitespace rune
lexWhitespaceReturn == lexTextFn

(* ------------------------ the scan goroutine --------------------------- *)

Init ==
  /\ input \in Inputs
  /\ start = 0
  /\ Position = 0
  /\ width = 0
  /\ r = eof
  /\ k = Text
  /\ pc = scanLoop(lexTextFn)
  /\ Items = <<>>
  /\ closed = FALSE
  /\ sent = <<>>
  /\ mode \in {"parse", "nextItem"}
  /\ cpc = IF mode = "parse" THEN "range" ELSE "nextItem"
  /\ sb = <<>>
  /\ result = <<>>
  /\ errItem = <<>>
  /\ ret = <<>>
  /\ received = <<>>
  /\ returned = <<>>

\* lexText: r := l.next()
LexTextNext ==
  /\ pc = "lexText"
  /\ r' = next(input, Position).r
  /\ width' = next(input, Position).width
  /\ Position' = next(input, Position).Position
  /\ pc' = "lexTextSwitch"
  /\ UNCHANGED <<input, start, k>>
  /\ UNCHANGED chanvars
  /\ UNCHANGED consvars

\* a bug: lexEOF with the l.backup() that the source has commented out
enterLexEOFBackup(kind) ==
  /\ k' = kind
  /\ Position' = backup(Position)
  /\ start' = IF start > backup(Position) THEN ignore(backup(Position)) ELSE start
  /\ pc' = "lexEOF"
  /\ UNCHANGED <<input, width, r>>
  /\ UNCHANGED chanvars
  /\ UNCHANGED consvars

\* Lexer.lexEOF up to its first emit
enterLexEOF(kind) ==
  /\ k' = kind
  /\ start' = IF start > Position THEN ignore(Position) ELSE start
  /\ pc' = "lexEOF"
  /\ UNCHANGED <<input, Position, width, r>>
  /\ UNCHANGED chanvars
  /\ UNCHANGED consvars

\* lexText: case r == eof
LexTextEOF ==
  /\ pc = "lexTextSwitch"
  /\ r = eof
  /\ enterLexEOF(Text)

\* lexText: case unicode.IsSpace(r)
LexTextSpace ==
  /\ pc = "lexTextSwitch"
  /\ r # eof
  /\ IsSpace(r)
  /\ Position' = backup(Position)
  /\ pc' = IF backup(Position) > start THEN "lexTextEmit" ELSE scanLoop(lexTextReturn)
  /\ UNCHANGED <<input, start, width, r, k>>
  /\ UNCHANGED chanvars
  /\ UNCHANGED consvars

\* lexText: no case matches, the for loop goes round
LexTextOther ==
  /\ pc = "lexTextSwitch"
  /\ r # eof
  /\ ~IsSpace(r)
  /\ pc' = "lexText"
  /\ UNCHANGED <<input, start, Position, width, r, k>>
  /\ UNCHANGED chanvars
  /\ UNCHANGED consvars

\* lexText: l.emit(Text); return lexWhitespace
LexTextEmit ==
  /\ pc = "lexTextEmit"
  /\ emit(Text)
  /\ pc' = scanLoop(lexTextReturn)
  /\ UNCHANGED <<input, Position, width, r, k>>
  /\ UNCHANGED consvars

\* lexWhitespace: r := l.next()
LexWhitespaceNext ==
  /\ pc = "lexWhitespace"
  /\ r' = next(input, Position).r
  /\ width' = next(input, Position).width
  /\ Position' = next(input, Position).Position
  /\ pc' = "lexWhitespaceSwitch"
  /\ UNCHANGED <<input, start, k>>
  /\ UNCHANGED chanvars
  /\ UNCHANGED consvars

\* lexWhitespace: case r == eof
LexWhitespaceEOF ==
  /\ pc = "lexWhitespaceSwitch"
  /\ r = eof
  /\ enterLexEOF(WhiteSpace)

\* lexWhitespace: case !unicode.IsSpace(r)
LexWhitespaceNonSpace ==
  /\ pc = "lexWhitespaceSwitch"
  /\ r # eof
  /\ ~IsSpace(r)
  /\ Position' = backup(Position)
  /\ pc' = IF backup(Position) > start THEN "lexWhitespaceEmit" ELSE scanLoop(lexWhitespaceReturn)
  /\ UNCHANGED <<input, start, width, r, k>>
  /\ UNCHANGED chanvars
  /\ UNCHANGED consvars

\* lexWhitespace: no case matches, the for loop goes round
LexWhitespaceOther ==
  /\ pc = "lexWhitespaceSwitch"
  /\ r # eof
  /\ IsSpace(r)
  /\ pc' = "lexWhitespace"
  /\ UNCHANGED <<input, start, Position, width, r, k>>
  /\ UNCHANGED chanvars
  /\ UNCHANGED consvars

\* lexWhitespace: l.emit(WhiteSpace); return lexText
LexWhitespaceEmit ==
  /\ pc = "lexWhitespaceEmit"
  /\ emit(WhiteSpace)
  /\ pc' = scanLoop(lexWhitespaceReturn)
  /\ UNCHANGED <<input, Position, width, r, k>>
  /\ UNCHANGED consvars

\* lexEOF: l.emit(k)
LexEOFEmit ==
  /\ pc = "lexEOF"
  /\ emit(k)
  /\ pc' = "lexEOFEmitEOF"
  /\ UNCHANGED <<input, Position, width, r, k>>
  /\ UNCHANGED consvars

\* lexEOF: l.emit(EOF); return nil
LexEOFEmitEOF ==
  /\ pc = "lexEOFEmitEOF"
  /\ emit(EOF)
  /\ pc' = scanLoop(lexEOFReturn)
  /\ UNCHANGED <<input, Position, width, r, k>>
  /\ UNCHANGED consvars

\* scan: close(l.Items), and the goroutine ends
Close ==
  /\ pc = "close"
  /\ ~closed
  /\ closed' = TRUE
  /\ pc' = "done"
  /\ UNCHANGED <<input, start, Position, width, r, k>>
  /\ UNCHANGED <<Items, sent>>
  /\ UNCHANGED consvars

Producer ==
  \/ LexTextNext \/ LexTextEOF \/ LexTextSpace \/ LexTextOther \/ LexTextEmit
  \/ LexWhitespaceNext \/ LexWhitespaceEOF \/ LexWhitespaceNonSpace
  \/ LexWhitespaceOther \/ LexWhitespaceEmit
  \/ LexEOFEmit \/ LexEOFEmitEOF \/ Close

(* ---------------------------- the consumers ---------------------------- *)

\* Reverse: the runes of s in reverse order, encoded again
RECURSIVE ReverseSeq(_)
ReverseSeq(rs) ==
  IF rs = <<>> THEN <<>> ELSE Append(ReverseSeq(Tail(rs)), Head(rs))

Reverse(s) == EncodeString(ReverseSeq(Runes(s)))

\* parser.parse: what one item does to the strings.Builder
writeItem(b, item) ==
  IF item.Kind = Text THEN b \o Reverse(item.Value)
  ELSE IF item.Kind = WhiteSpace THEN b \o item.Value
  ELSE b

\* parser.parse: one round of `for item := range p.lex.Items`
ParseRange ==
  /\ cpc = "range"
  /\ Items # <<>> \/ closed
  /\ IF Items # <<>>
     THEN LET item == Head(Items) IN
          /\ Items' = Tail(Items)
          /\ received' = Append(received, item)
          /\ sb' = writeItem(sb, item)
          /\ result' = IF item.Kind = EOF THEN sb ELSE result
          /\ errItem' = IF item.Kind = ItemError THEN <<item>> ELSE errItem
          /\ cpc' = IF item.Kind \in {EOF, ItemError} THEN "parsed" ELSE "range"
     ELSE /\ cpc' = "parsed"
          /\ UNCHANGED <<Items, received, sb, result, errItem>>
  /\ UNCHANGED <<mode, ret, returned>>
  /\ UNCHANGED <<closed, sent>>
  /\ UNCHANGED lexvars

\* Parse: after p.parse() returns
ParseReturn ==
  /\ cpc = "parsed"
  /\ ret' = IF errItem # <<>>
            THEN <<[out |-> <<>>, err |-> TRUE]>>
            ELSE <<[out |-> result, err |-> FALSE]>>
  /\ cpc' = "returned"
  /\ UNCHANGED <<mode, sb, result, errItem, received, returned>>
  /\ UNCHANGED chanvars
  /\ UNCHANGED lexvars

\* Lexer.nextItem: return <-l.Items
NextItem ==
  /\ cpc = "nextItem"
  /\ Items # <<>> \/ closed
  /\ IF Items # <<>>
     THEN /\ Items' = Tail(Items)
          /\ received' = Append(received, Head(Items))
          /\ returned' = Append(returned, Head(Items))
     ELSE /\ Len(returned) - Len(received) < MaxExtraReads
          /\ returned' = Append(returned, ZeroItem)
          /\ UNCHANGED <<Items, received>>
  /\ UNCHANGED <<mode, cpc, sb, result, errItem, ret>>
  /\ UNCHANGED <<closed, sent>>
  /\ UNCHANGED lexvars

Consumer == ParseRange \/ ParseReturn \/ NextItem

Next ==
  \/ LexTextNext \/ LexTextEOF \/ LexTextSpace \/ LexTextOther \/ LexTextEmit
  \/ LexWhitespaceNext \/ LexWhitespaceEOF \/ LexWhitespaceNonSpace
  \/ LexWhitespaceOther \/ LexWhitespaceEmit
  \/ LexEOFEmit \/ LexEOFEmitEOF \/ Close
  \/ ParseRange \/ ParseReturn \/ NextItem

Spec == Init /\ [][Next]_vars

\* the Go scheduler runs some goroutine whenever one can take a step.  When
\* the scan goroutine is blocked in a send, the only step left is the
\* consumer's receive, so a behaviour of LiveSpec is one in which the
\* consumer keeps receiving.
LiveSpec == Spec /\ WF_vars(Next)

(* ------------------------ vocabulary of the claims --------------------- *)

IsTerminal(item) == item.Kind \in {EOF, ItemError}

\* the items of a sequence that come before EOF/Error
NonTerminal(items) == SelectSeq(items, LAMBDA it : ~IsTerminal(it))

RECURSIVE ConcatValues(_)
ConcatValues(items) ==
  IF items = <<>> THEN <<>> ELSE Head(items).Value \o ConcatValues(Tail(items))

\* a control character that is not whitespace (NUL among them) is not printable
IsControl(c) == c \in 0..31 \/ c \in 127..159

\* the text is made of whitespace and printable characters only
PrintableText(inp) == \A i \in 1..Len(Runes(inp)) :
  IsSpace(Runes(inp)[i]) \/ ~IsControl(Runes(inp)[i])

HasMultiByteRune(inp) == \E i \in 1..Len(Runes(inp)) : Runes(inp)[i] >= 128

\* the text with every maximal run of non-whitespace code points reversed in
\* place and every whitespace code point left where it is
ExpectedTransform(inp) ==
  LET cs == Runes(inp)
      word(a, b) == \A m \in a..b : ~IsSpace(cs[m])
      lo(i) == CHOOSE a \in 1..i : word(a, i) /\ (a = 1 \/ IsSpace(cs[a - 1]))
      hi(i) == CHOOSE b \in i..Len(cs) : word(i, b) /\ (b = Len(cs) \/ IsSpace(cs[b + 1]))
  IN EncodeString([i \in 1..Len(cs) |->
                     IF IsSpace(cs[i]) THEN cs[i] ELSE cs[lo(i) + hi(i) - i]])

(* ------------------------------- claims -------------------------------- *)

\* C1: the values of the items sent before EOF/Error, concatenated in the
\* order they were sent, are at every moment the part of the input that has
\* been emitted (input[0:start]), and once the scan of a text made only of
\* whitespace and printable characters is over they are the whole input.
SegmentationCoversInput ==
  /\ ConcatValues(NonTerminal(sent)) = SubSeq(input, 1, start)
  /\ (closed /\ PrintableText(input)) => ConcatValues(NonTerminal(sent)) = input

\* a finished scan of a printable text with a multi-byte rune, cut in
\* several segments
SegmentationWitness ==
  /\ closed
  /\ PrintableText(input)
  /\ HasMultiByteRune(input)
  /\ Len(NonTerminal(sent)) >= 3
  /\ ConcatValues(NonTerminal(sent)) = input

\* C2: no two consecutive items sent before EOF/Error have the same Kind
\* when both values are non-empty.
AlternationInvariant ==
  LET nt == NonTerminal(sent) IN
  \A i \in 1..(Len(nt) - 1) :
    (nt[i].Value # <<>> /\ nt[i + 1].Value # <<>>) => nt[i].Kind # nt[i + 1].Kind

\* C3: with a consumer that keeps receiving, the scan goroutine eventually
\* sends a terminal item as its last item, the state-function loop ends and
\* the Items channel is closed.
ScanTerminates ==
  <>(/\ pc = "done"
     /\ closed
     /\ sent # <<>>
     /\ IsTerminal(sent[Len(sent)]))

\* a scan that has gone through both state functions several times and ended
ScanTerminatesWitness ==
  /\ pc = "done"
  /\ closed
  /\ Len(sent) >= 4
  /\ IsTerminal(sent[Len(sent)])

\* C4: at most one terminal item is sent and nothing is sent after it; the
\* channel is closed only after the terminal item was sent, by the last step
\* of the goroutine, so that nothing is sent or closed afterwards.
OneTerminalThenClose ==
  /\ \A i \in 1..Len(sent) : IsTerminal(sent[i]) => i = Len(sent)
  /\ (sent # <<>> /\ IsTerminal(sent[Len(sent)])) => pc \in {"close", "done"}
  /\ closed => (sent # <<>> /\ IsTerminal(sent[Len(sent)]))
  /\ closed <=> pc = "done"

\* the channel is closed after several items and one EOF
OneTerminalWitness ==
  /\ closed
  /\ Len(sent) >= 3
  /\ sent[Len(sent)].Kind = EOF
  /\ Len(NonTerminal(sent)) = Len(sent) - 1

\* C5: what the consumer has received, followed by what is in the channel,
\* is what the producer sent, in the order it sent it.
FifoDelivery == received \o Items = sent

\* the consumer has received several items while the producer is still
\* sending
FifoWitness ==
  /\ Len(received) >= 3
  /\ Items # <<>>
  /\ ~closed

\* C6: the scan of the empty input sends exactly one item, an EOF item with
\* an empty Value, before the channel is closed.
EmptyInputOneItem ==
  (input = <<>> /\ closed) =>
    sent = <<[Position |-> 0, Kind |-> EOF, Value |-> <<>>]>>

\* C7: every item with an empty Value is the EOF marker; a Text or WhiteSpace
\* item always has a non-empty Value.
NoEmptySegment ==
  \A i \in 1..Len(sent) :
    /\ sent[i].Value = <<>> => sent[i].Kind = EOF
    /\ sent[i].Kind \in {Text, WhiteSpace} => sent[i].Value # <<>>

\* C8: Parse returns, with a nil error, the input with every maximal run of
\* non-whitespace code points reversed in place and the whitespace unchanged.
ParseReversesWords ==
  ret # <<>> => ret[1] = [out |-> ExpectedTransform(input), err |-> FALSE]

\* C9: the scan of an input of n >= 1 whitespace characters sends exactly two
\* items, a WhiteSpace item with the whole input as its Value and EOF.
PureWhitespaceTwoItems ==
  (/\ closed
   /\ input # <<>>
   /\ \A i \in 1..Len(Runes(input)) : IsSpace(Runes(input)[i]))
  => sent = <<[Position |-> 0, Kind |-> WhiteSpace, Value |-> input],
              [Position |-> Len(input), Kind |-> EOF, Value |-> <<>>]>>

\* C10: a read of the closed and drained channel delivers no item: whatever
\* nextItem has returned to the consumer is an item the producer sent.
DrainedReadDeliversNothing ==
  mode = "nextItem" => returned = received

(* ----------------------------- SimpleParser ---------------------------- *)

\* SimpleParser: the loop over the runes of the input and the clean-up after
\* it; res and word are its two local strings
RECURSIVE simpleLoop(_, _, _)
simpleLoop(rs, res, word) ==
  IF rs = <<>>
  THEN IF Len(word) > 0 THEN res \o Reverse(word) ELSE res
  ELSE IF EncodeRune(Head(rs)) = <<32>>
       THEN simpleLoop(Tail(rs),
                       (IF Len(word) > 0 THEN res \o Reverse(word) ELSE res) \o <<32>>,
                       word)
       ELSE simpleLoop(Tail(rs), res, word)

SimpleParser(inp) == simpleLoop(Runes(inp), <<>>, <<>>)

\* a call of SimpleParser on its own: no lexer is started
SimpleInit ==
  /\ input \in Inputs
  /\ start = 0
  /\ Position = 0
  /\ width = 0
  /\ r = eof
  /\ k = Text
  /\ pc = "none"
  /\ Items = <<>>
  /\ closed = FALSE
  /\ sent = <<>>
  /\ mode = "simple"
  /\ cpc = "call"
  /\ sb = <<>>
  /\ result = <<>>
  /\ errItem = <<>>
  /\ ret = <<>>
  /\ received = <<>>
  /\ returned = <<>>

\* SimpleParser(input) runs and returns
SimpleParserCall ==
  /\ mode = "simple"
  /\ cpc = "call"
  /\ ret' = <<[out |-> SimpleParser(input), err |-> FALSE]>>
  /\ cpc' = "returned"
  /\ UNCHANGED <<mode, sb, result, errItem, received, returned>>
  /\ UNCHANGED chanvars
  /\ UNCHANGED lexvars

SimpleNext == SimpleParserCall

SimpleSpec == SimpleInit /\ [][SimpleNext]_vars

\* the text is made of words and of spaces (U+0020) between them
WordsAndSpaces(inp) == \A i \in 1..Len(Runes(inp)) :
  Runes(inp)[i] = 32 \/ ~IsSpace(Runes(inp)[i])

\* C11: on a text of words separated by spaces SimpleParser returns the text
\* with its spaces kept and the characters of each word reversed, which is
\* what Parse is to return for it.
SimpleParserReversesWords ==
  (mode = "simple" /\ ret # <<>> /\ WordsAndSpaces(input))
  => ret[1].out = ExpectedTransform(input)

\* C12: the Value of a Text item holds no whitespace code point and the Value
\* of a WhiteSpace item holds whitespace code points only.
ItemsMatchTheirKind ==
  \A i \in 1..Len(sent) :
    LET rs == Runes(sent[i].Value) IN
    /\ sent[i].Kind = Text => \A j \in 1..Len(rs) : ~IsSpace(rs[j])
    /\ sent[i].Kind = WhiteSpace => \A j \in 1..Len(rs) : IsSpace(rs[j])

\* the places where backup() is called: the switch that follows next()
SwitchPcs == {"lexTextSwitch", "lexWhitespaceSwitch"}

\* C13: a backup() after a next() puts Position back where it was before
\* that next(), which advanced it by width.
BackupRestoresPosition ==
  [][(pc \in SwitchPcs /\ Position' # Position) => Position' = Position - width]_vars

\* C14: next() returns the sentinel exactly when it was called with
\* Position >= len(input), and an EOF item is sent only at the end of the
\* input: its Position is len(input).
SentinelOnlyAtEnd ==
  /\ pc \in SwitchPcs => (r = eof <=> (width = 0 /\ Position >= Len(input)))
  /\ \A i \in 1..Len(sent) : sent[i].Kind = EOF => sent[i].Position = Len(input)

\* C15: 0 <= start <= Position <= len(input) in every state of a scan, so
\* that the guard `start > Position` of lexEOF is never true.
CursorInBounds ==
  /\ 0 <= start
  /\ start <= Position
  /\ Position <= Len(input)

\* a backup() has just brought Position back onto start, after an item was
\* emitted
CursorInBoundsWitness ==
  /\ pc \in {"lexText", "lexWhitespace"}
  /\ r # eof
  /\ width > 0
  /\ Position = start
  /\ start > 0
  /\ start < Len(input)

\* C16: the Position of the items sent, the terminal item included, never
\* decreases from one item to the next, and the Position of an item is the
\* offset of the input at which its Value starts.
ItemPositions ==
  /\ \A i \in 1..(Len(sent) - 1) : sent[i].Position <= sent[i + 1].Position
  /\ \A i \in 1..Len(sent) :
       /\ sent[i].Position = Len(ConcatValues(SubSeq(sent, 1, i - 1)))
       /\ sent[i].Value =
            SubSeq(input, sent[i].Position + 1, sent[i].Position + Len(sent[i].Value))

\* a finished scan that sent several non-empty items and then EOF
ItemPositionsWitness ==
  /\ closed
  /\ Len(sent) >= 4
  /\ sent[Len(sent)].Kind = EOF
  /\ sent[Len(sent)].Position = Len(input)
  /\ \A i \in 1..(Len(sent) - 1) : sent[i].Value # <<>>

\* C17: a step that moves Position back (a backup()) is taken only from the
\* switch that follows a next(), when that next() returned a rune that is
\* not the sentinel and advanced the cursor by width; it leaves the switch,
\* so that a second backup() needs another next() first.
BackupOnlyAfterNext ==
  [][Position' < Position =>
       /\ pc \in SwitchPcs
       /\ pc' \notin SwitchPcs
       /\ r # eof
       /\ width > 0
       /\ next(input, Position - width) = [r |-> r, width |-> width, Position |-> Position]
    ]_vars

\* a backup() has just run: the goroutine is about to emit the segment that
\* ends one byte before the place the last next() left the cursor at
BackupOnlyAfterNextWitness ==
  /\ pc \in {"lexTextEmit", "lexWhitespaceEmit"}
  /\ r # eof
  /\ width > 0
  /\ next(input, Position + 1 - width) = [r |-> r, width |-> width, Position |-> Position + 1]
  /\ sent # <<>>

\* the places where the scan goroutine is in a send
SendPcs == {"lexTextEmit", "lexWhitespaceEmit", "lexEOF", "lexEOFEmitEOF"}

\* C18: while the buffer is full and the scan goroutine is in a send, every
\* step in which the consumer receives nothing leaves the goroutine in that
\* send, with nothing sent and the channel open: nothing but a receive gets
\* it out.
BlockedWithoutReceive ==
  [][(Len(Items) = ItemsCap /\ pc \in SendPcs /\ received' = received)
       => (pc' = pc /\ sent' = sent /\ Items' = Items /\ ~closed')]_vars

\* the goroutine is in a send with the buffer full and items still to send
BlockedWitness ==
  /\ Len(Items) = ItemsCap
  /\ pc \in {"lexTextEmit", "lexWhitespaceEmit"}
  /\ ~closed
  /\ mode = "nextItem"
  /\ Len(received) >= 1

\* C19: once parser.parse has stopped reading, the scan goroutine has sent
\* its last item and is past every send: it is at close(Items) or has ended,
\* the buffer is empty, and what parse stopped on is the last item sent.
ParseLeavesProducerFree ==
  (mode = "parse" /\ cpc \in {"parsed", "returned"}) =>
    /\ pc \in {"close", "done"}
    /\ Items = <<>>
    /\ received = sent
    /\ IsTerminal(sent[Len(sent)])

\* Parse has returned and the goroutine has ended after several items
ParseLeavesProducerFreeWitness ==
  /\ mode = "parse"
  /\ cpc = "returned"
  /\ pc = "done"
  /\ closed
  /\ Len(sent) >= 3

\* C20: no Error item is sent, a scan that is over ended with EOF, and Parse
\* returns a nil error.
NoErrorItem ==
  /\ \A i \in 1..Len(sent) : sent[i].Kind # ItemError
  /\ closed => sent[Len(sent)].Kind = EOF
  /\ errItem = <<>>
  /\ (mode = "parse" /\ ret # <<>>) => ret[1].err = FALSE

\* Parse has returned a nil error after a scan of several items
NoErrorItemWitness ==
  /\ mode = "parse"
  /\ ret # <<>>
  /\ ret[1].err = FALSE
  /\ closed
  /\ Len(sent) >= 3
  /\ sent[Len(sent)].Kind = EOF

====
